---- MODULE Spec2Model ----
(***************************************************************************)
(* A model of microstate (src/microstate/state_machine.py): the transition *)
(* registry `Transitions` (new / inner_register / manual / _freeze /        *)
(* get_transitions / __exit__), the type assembly step                     *)
(* AbstractStateMachine.__init_subclass__, and the run time (update, the   *)
(* manual wrapper and the current_state property).                         *)
(*                                                                         *)
(* Python values are modelled as follows.                                  *)
(*   - None is the string "None".                                          *)
(*   - A state is a string naming an enum member; type(s) gives its enum   *)
(*     class and bool(s) its truth value.  DoorState and BadEnum are plain *)
(*     Enums (every member is true); Level is an enum that mixes in int,   *)
(*     whose member IDLE has the value 0 and is therefore false.           *)
(*   - A dict from states to lists or tuples of functions is a function    *)
(*     over AllStates to sequences; an absent key is the empty sequence    *)
(*     (the code never stores an empty list under a key).                  *)
(*   - A function object is a string "Owner.name"; __name__ gives its      *)
(*     declared name and Call its behaviour.                               *)
(***************************************************************************)
EXTENDS Naturals, Sequences, FiniteSets, TLC

VARIABLES
    registry,    \* registry id -> the fields of a Transitions object
    decorators,  \* the inner_register closures returned by new() and still held
    wrappers,    \* the inner_wrapper functions returned by manual()
    classes,     \* class id -> the class attributes set by __init_subclass__
    instances,   \* instance id -> the instance's own attributes
    last,        \* the last call made: its arguments, result and the handlers it ran
    script       \* the values returned so far by the scripted run of the door test

vars == <<registry, decorators, wrappers, classes, instances, last, script>>

None == "None"

-----------------------------------------------------------------------------
(* Bounds of the model *)

\* the largest number of handler entries one registry may hold (stored, frozen
\* and pending together)
MaxReg == 2

-----------------------------------------------------------------------------
(* State domains and inputs *)

Level == {"IDLE", "RUN", "DONE"}
DoorState == {"LOCKED", "UNLOCKED", "BROKEN"}
BadEnum == {"BAD_A"}
AllStates == Level \cup DoorState \cup BadEnum

DoorEvent == {"INSERT_KEY", "BREAK", "REPAIR"}
Signal == {"GO"}

\* type(x) of an enum member: its enum class
type(s) ==
    CASE s \in Level -> "Level"
      [] s \in DoorState -> "DoorState"
      [] s \in BadEnum -> "BadEnum"
      [] s = None -> "NoneType"
      [] OTHER -> "int"

isinstance(s, t) == type(s) = t

\* Python truth value: None is false, a plain Enum member is true, a member of
\* an int-mixed enum is false when its value is 0 (Level.IDLE = 0), an
\* exception is true unless its class defines __len__ or __bool__ ("EmptyErrors"
\* is an exception that carries a list of items and has none)
bool(x) == x # None /\ x # "IDLE" /\ x # "EmptyErrors"

\* The exceptions a with block is left by
Exceptions == {"ValueError", "EmptyErrors"}

EmptyTable == [s \in AllStates |-> <<>>]

\* issubclass(e, base) over the exception classes of the module
issubclass(e, base) ==
    \/ e = base
    \/ /\ e \in {"TransitionSignatureError", "TransitionFrozenError",
                 "TransitionNotFrozenError", "InvalidStateInput"}
       /\ base \in {"StateMachineCompilationError", "BaseStateMachineError"}
    \/ e = "StateMachineCompilationError" /\ base = "BaseStateMachineError"

-----------------------------------------------------------------------------
(* Function objects: the transition handlers and manual handlers that the   *)
(* class bodies of the model declare.                                      *)

LevelFuncs == {"Base.stay", "Base.to_run", "Base.to_idle", "Base.to_done"}
DerivedFuncs == {"Derived.to_run", "Derived.finish"}
DoorFuncs == {"Door.to_unlocked", "Door.to_locked", "Door.to_broken",
              "Door.to_locked_from_broken"}
\* Handlers whose parameter list differs from that of Base.update: a missing
\* parameter, an extra parameter, another declared parameter type
BadSigFuncs == {"Base.no_arg", "Base.extra_arg", "Base.wrong_type"}
\* Handlers with the parameters of Base.update and a declared return type
\* outside Level: Literal[42], int, Optional[int]
BadRetFuncs == {"Base.ret_lit42", "Base.ret_int", "Base.ret_opt_int"}
Funcs == LevelFuncs \cup DerivedFuncs \cup DoorFuncs \cup BadSigFuncs \cup BadRetFuncs

LevelManualFuncs == {"Base.halt", "Base.start_if_idle", "Base.refresh"}
DoorManualFuncs == {"Door.force_open"}
ManualFuncs == LevelManualFuncs \cup DoorManualFuncs

\* func.__name__
__name__(f) ==
    CASE f = "Base.stay" -> "stay"
      [] f = "Base.to_run" -> "to_run"
      [] f = "Base.to_idle" -> "to_idle"
      [] f = "Base.to_done" -> "to_done"
      [] f = "Derived.to_run" -> "to_run"
      [] f = "Derived.finish" -> "finish"
      [] f = "Door.to_unlocked" -> "to_unlocked"
      [] f = "Door.to_locked" -> "to_locked"
      [] f = "Door.to_broken" -> "to_broken"
      [] f = "Door.to_locked_from_broken" -> "to_locked_from_broken"
      [] f = "Base.halt" -> "halt"
      [] f = "Base.start_if_idle" -> "start_if_idle"
      [] f = "Base.refresh" -> "refresh"
      [] f = "Door.force_open" -> "force_open"
      [] f = "Base.no_arg" -> "no_arg"
      [] f = "Base.extra_arg" -> "extra_arg"
      [] f = "Base.wrong_type" -> "wrong_type"
      [] f = "Base.ret_lit42" -> "ret_lit42"
      [] f = "Base.ret_int" -> "ret_int"
      [] f = "Base.ret_opt_int" -> "ret_opt_int"
      [] OTHER -> None

\* inspect.signature(f).parameters
Parameters(f) ==
    CASE f \in DoorFuncs -> <<"self", "event: Optional[DoorEvent] = None">>
      [] f \in LevelFuncs \cup DerivedFuncs \cup BadRetFuncs ->
            <<"self", "signal: Optional[Signal] = None">>
      [] f = "Base.extra_arg" ->
            <<"self", "signal: Optional[Signal] = None", "extra: int">>
      [] f = "Base.wrong_type" -> <<"self", "signal: Optional[str] = None">>
      [] f = "DoorStateMachine.update" -> <<"self", "event: Optional[DoorEvent] = None">>
      [] f = "Base.update" -> <<"self", "signal: Optional[Signal] = None">>
      [] OTHER -> <<"self">>

\* inspect.signature(f).return_annotation: a class, a Literal[...] or a Union
ReturnAnnotation(f) ==
    CASE f = "Base.stay" -> [origin |-> "class", args |-> {"Level"}]
      [] f = "Base.to_idle" -> [origin |-> "Literal", args |-> {"IDLE"}]
      [] f = "Base.to_done" -> [origin |-> "Literal", args |-> {"DONE"}]
      [] f \in {"Base.to_run", "Derived.to_run", "Derived.finish"} \cup BadSigFuncs ->
            [origin |-> "Union", args |-> {"Level", "NoneType"}]
      [] f = "Base.ret_lit42" -> [origin |-> "Literal", args |-> {"42"}]
      [] f = "Base.ret_int" -> [origin |-> "class", args |-> {"int"}]
      [] f = "Base.ret_opt_int" -> [origin |-> "Union", args |-> {"int", "NoneType"}]
      [] OTHER -> [origin |-> "Union", args |-> {"DoorState", "NoneType"}]

\* The result of calling handler f on a machine whose current state is cur
Call(f, cur, input) ==
    CASE f = "Base.stay" -> cur
      [] f = "Base.to_run" -> IF input = "GO" THEN "RUN" ELSE None
      [] f = "Base.to_idle" -> "IDLE"
      [] f = "Base.to_done" -> "DONE"
      [] f = "Derived.to_run" -> IF input = "GO" THEN "RUN" ELSE "DONE"
      [] f = "Derived.finish" -> IF input = "GO" THEN "DONE" ELSE None
      [] f = "Door.to_unlocked" -> IF input = "INSERT_KEY" THEN "UNLOCKED" ELSE None
      [] f = "Door.to_locked" -> IF input = "INSERT_KEY" THEN "LOCKED" ELSE None
      [] f = "Door.to_broken" -> IF input = "BREAK" THEN "BROKEN" ELSE None
      [] f = "Door.to_locked_from_broken" -> IF input = "REPAIR" THEN "LOCKED" ELSE None
      [] f = "Base.ret_int" -> "42"
      [] f = "Base.ret_opt_int" -> IF input = "GO" THEN "42" ELSE None
      [] OTHER -> None

\* The result of calling the manual handler f
CallManual(f, cur) ==
    CASE f = "Door.force_open" -> IF cur = "LOCKED" THEN "UNLOCKED" ELSE None
      [] f = "Base.halt" -> "IDLE"
      [] f = "Base.start_if_idle" -> IF cur = "IDLE" THEN "RUN" ELSE None
      [] f = "Base.refresh" -> cur
      [] OTHER -> None

-----------------------------------------------------------------------------
(* Transitions: the registry *)

Ok(v) == [raised |-> None, value |-> v]
Raise(e) == [raised |-> e, value |-> None]

\* Transitions.__init__
Transitions(_spec) ==
    [_transitions |-> EmptyTable,
     _frozen_transitions |-> EmptyTable,
     _manual_transitions |-> <<>>,
     _frozen_manual_transitions |-> <<>>,
     _spec |-> _spec,
     _frozen |-> FALSE]

\* The argument of new(): a bare state (not Iterable) or a tuple of states
Bare(s) == [iterable |-> FALSE, value |-> s]
Tuple(q) == [iterable |-> TRUE, value |-> q]

\* A variant of new that does not look at self._frozen
newIgnoresFrozen(self, from_states) ==
    LET states == IF from_states.iterable THEN from_states.value
                  ELSE <<from_states.value>>
    IN  IF ~(Len(states) >= 1) THEN Raise("InvalidStateInput")
        ELSE IF ~(\A k \in 1..Len(states) : isinstance(states[k], type(states[1])))
        THEN Raise("InvalidStateInput")
        ELSE Ok([from_states |-> states,
                 state_type |-> type(states[1]),
                 ref_sig |-> Parameters(self._spec)])

\* A variant of new that does not compare the types of the states
newAcceptsMixed(self, from_states) ==
    LET states == IF from_states.iterable THEN from_states.value
                  ELSE <<from_states.value>>
    IN  IF self._frozen THEN Raise("TransitionFrozenError")
        ELSE IF ~(Len(states) >= 1) THEN Raise("InvalidStateInput")
        ELSE Ok([from_states |-> states,
                 state_type |-> type(states[1]),
                 ref_sig |-> Parameters(self._spec)])

\* Transitions.new: the checks made before the decorator is returned.  The
\* value is the closure of inner_register: what it captured of new()'s frame.
new(self, from_states) ==
    LET ref_sig == Parameters(self._spec)
        states == IF from_states.iterable THEN from_states.value
                  ELSE <<from_states.value>>
    IN  IF self._frozen THEN Raise("TransitionFrozenError")
        ELSE IF ~(Len(states) >= 1) THEN Raise("InvalidStateInput")
        ELSE LET state_type == type(states[1])
             IN  IF ~(\A k \in 1..Len(states) : isinstance(states[k], state_type))
                 THEN Raise("InvalidStateInput")
                 ELSE Ok([from_states |-> states,
                          state_type |-> state_type,
                          ref_sig |-> ref_sig])

\* A variant of AppendAll that stores func under the first state only
AppendFirstOnly(_transitions, from_states, k, func) ==
    [_transitions EXCEPT ![from_states[1]] = Append(@, func)]

\* A variant of AppendAll that replaces the list of a state by [func]
RECURSIVE AppendAllOverwrites(_, _, _, _)
AppendAllOverwrites(_transitions, from_states, k, func) ==
    IF k > Len(from_states) THEN _transitions
    ELSE AppendAllOverwrites([_transitions EXCEPT ![from_states[k]] = <<func>>],
                             from_states, k + 1, func)

\* The loop `for state in from_states: setdefault(state, []).append(func)`
RECURSIVE AppendAll(_, _, _, _)
AppendAll(_transitions, from_states, k, func) ==
    IF k > Len(from_states) THEN _transitions
    ELSE AppendAll([_transitions EXCEPT ![from_states[k]] = Append(@, func)],
                   from_states, k + 1, func)

\* A variant of inner_register that does not compare the parameters
inner_registerNoSignatureCheck(self, closure, func) ==
    LET ra == ReturnAnnotation(func)
    IN  IF ~(ra.origin = "class" /\ ra.args = {closure.state_type})
           /\ (ra.origin = "Literal"
               /\ \E r \in ra.args : type(r) # closure.state_type)
        THEN Raise("TransitionSignatureError")
        ELSE Ok([self |-> [self EXCEPT !._transitions =
                              AppendAll(@, closure.from_states, 1, func)],
                 func |-> func])

\* The decorator returned by new(), applied to func; value.self is the registry
\* after the call
inner_register(self, closure, func) ==
    LET ra == ReturnAnnotation(func)
    IN  IF Parameters(func) # closure.ref_sig THEN Raise("TransitionSignatureError")
        ELSE IF ~(ra.origin = "class" /\ ra.args = {closure.state_type})
                /\ (ra.origin = "Literal"
                    /\ \E r \in ra.args : type(r) # closure.state_type)
        THEN Raise("TransitionSignatureError")
        ELSE Ok([self |-> [self EXCEPT !._transitions =
                              AppendAll(@, closure.from_states, 1, func)],
                 func |-> func])

\* A variant of _freeze that puts the manual handlers into every state's tuple
_freezeMixesManual(self) ==
    [self EXCEPT !._frozen_transitions =
                     [s \in AllStates |-> self._transitions[s] \o self._manual_transitions],
                 !._frozen_manual_transitions = self._manual_transitions,
                 !._transitions = EmptyTable,
                 !._manual_transitions = <<>>,
                 !._frozen = TRUE]

\* Transitions._freeze
_freeze(self) ==
    [self EXCEPT !._frozen_transitions = self._transitions,
                 !._frozen_manual_transitions = self._manual_transitions,
                 !._transitions = EmptyTable,
                 !._manual_transitions = <<>>,
                 !._frozen = TRUE]

\* Transitions.__exit__: exc_value is None on a normal exit of the with block
__exit__(self, exc_value) ==
    IF bool(exc_value) THEN [raised |-> exc_value, value |-> self]
    ELSE Ok(_freeze(self))

\* A variant of get_transitions that does not look at self._frozen
get_transitionsUnchecked(self) ==
    Ok(<<self._frozen_transitions, self._frozen_manual_transitions>>)

\* Transitions.get_transitions
get_transitions(self) ==
    IF ~self._frozen THEN Raise("TransitionNotFrozenError")
    ELSE Ok(<<self._frozen_transitions, self._frozen_manual_transitions>>)

\* Transitions.manual: value.self is the registry after the call, value.func the
\* inner_wrapper returned
manual(self, func) ==
    IF self._frozen THEN Raise("TransitionFrozenError")
    ELSE Ok([self |-> [self EXCEPT !._manual_transitions = Append(@, func)],
             func |-> func])

-----------------------------------------------------------------------------
(* AbstractStateMachine: type assembly *)

\* The names a class body may bind a Transitions object to, in the sorted
\* order in which dir(cls) lists them
AttrNames == <<"Transition", "register", "transitions">>

NoAttrs == [a \in {"Transition", "register", "transitions"} |-> None]

\* The class AbstractStateMachine itself: it sets none of the class attributes.
\* attrs is the class namespace as getattr resolves it (the class's own
\* bindings over the inherited ones); init_state and inherit_transitions keep
\* the keywords of the class statement for the properties, the code does not
\* store them.
AbstractStateMachine ==
    [name |-> "AbstractStateMachine",
     defined |-> TRUE,
     base |-> "object",
     _state_type |-> None,
     _init_state |-> None,
     _current_state |-> None,
     _state_transitions |-> EmptyTable,
     attrs |-> NoAttrs,
     init_state |-> None,
     inherit_transitions |-> TRUE]

\* A class statement that has not run yet
Undefined(name) == [AbstractStateMachine EXCEPT !.name = name, !.defined = FALSE]

\* dict.get(key, ())
get(table, key) == IF key \in DOMAIN table THEN table[key] ELSE <<>>

\* The body of `for state, funcs in register.get_transitions()[0].items()`,
\* for every state at once (the iterations touch different keys)
MergeRegister(_state_transitions, frozen) ==
    [state \in AllStates |->
        IF Len(frozen[state]) = 0 THEN _state_transitions[state]
        ELSE LET parents_transition == _state_transitions[state]
             IN  IF Len(parents_transition) = 0 THEN frozen[state]
                 ELSE LET overriden_transitions ==
                              {__name__(parents_transition[k]) :
                                  k \in 1..Len(parents_transition)}
                      IN  SelectSeq(parents_transition,
                                    LAMBDA f : f \notin overriden_transitions)
                          \o frozen[state]]

\* The loop `for attr_name in dir(cls)` over the attributes that hold a
\* Transitions object; registers maps each registry id to its fields
RECURSIVE ScanDir(_, _, _, _, _)
ScanDir(_state_transitions, attr_names, k, attrs, registers) ==
    IF k > Len(attr_names) THEN Ok(_state_transitions)
    ELSE LET got == get_transitions(registers[attrs[attr_names[k]]])
         IN  IF got.raised # None THEN Raise(got.raised)
             ELSE ScanDir(MergeRegister(_state_transitions, got.value[1]),
                          attr_names, k + 1, attrs, registers)

\* A variant of SetStartState that leaves cls._current_state as inherited
SetStartStateKeepsInherited(parent, init_state) ==
    [parent EXCEPT !.defined = TRUE,
                   !._state_type = type(init_state),
                   !._init_state = init_state]

\* The three assignments cls._state_type, cls._init_state, cls._current_state;
\* every other attribute of the new class is for now the one it inherits
SetStartState(parent, init_state) ==
    [parent EXCEPT !.defined = TRUE,
                   !._state_type = type(init_state),
                   !._init_state = init_state,
                   !._current_state = init_state]

\* A variant of ResolveInitState that accepts a class without a start state
ResolveInitStateUnchecked(parent, init_state) ==
    IF init_state = None THEN Ok(parent._init_state) ELSE Ok(init_state)

\* A variant of ResolveInitState that prefers the inherited start state
ResolveInitStateParentFirst(parent, init_state) ==
    IF parent._init_state # None THEN Ok(parent._init_state)
    ELSE IF init_state = None THEN Raise("StateMachineCompilationError")
    ELSE Ok(init_state)

\* `if init_state is None: try: init_state = cls._init_state except
\* AttributeError: raise StateMachineCompilationError`; cls._init_state is
\* looked up on the new class, which so far only inherits it
ResolveInitState(parent, init_state) ==
    IF init_state = None
    THEN IF parent._init_state = None THEN Raise("StateMachineCompilationError")
         ELSE Ok(parent._init_state)
    ELSE Ok(init_state)

\* AbstractStateMachine.__init_subclass__ for the class `name` whose only base
\* is the class parent and whose body binds the attributes of body
__init_subclass__(name, parent, init_state, inherit_transitions, body, registers) ==
    LET start == ResolveInitState(parent, init_state)
        attrs == [a \in DOMAIN body |->
                     IF body[a] # None THEN body[a] ELSE parent.attrs[a]]
        inherited == IF ~inherit_transitions \/ parent.name = "AbstractStateMachine"
                     THEN EmptyTable
                     ELSE parent._state_transitions
        dir == SelectSeq(AttrNames, LAMBDA a : attrs[a] # None)
        merged == ScanDir(inherited, dir, 1, attrs, registers)
    IN  IF start.raised # None THEN Raise(start.raised)
        ELSE IF merged.raised # None THEN Raise(merged.raised)
        ELSE Ok([SetStartState(parent, start.value) EXCEPT
                     !.name = name,
                     !.base = parent.name,
                     !._state_transitions = merged.value,
                     !.attrs = attrs,
                     !.init_state = init_state,
                     !.inherit_transitions = inherit_transitions])

-----------------------------------------------------------------------------
(* AbstractStateMachine: run time *)

\* An instance before construction
NoInstance == [alive |-> FALSE, cls |-> None, _current_state |-> None]

\* object.__new__: the instance's own __dict__ is empty
NewInstance(cls) == [alive |-> TRUE, cls |-> cls, _current_state |-> None]

\* Attribute lookup of self._current_state: the instance's own attribute if it
\* is set, else the class attribute
_current_state(self, cls) ==
    IF self._current_state # None THEN self._current_state ELSE cls._current_state

\* The getter of the current_state property
current_state(self, cls) == _current_state(self, cls)

\* The setter of the current_state property
current_state_setter(self, cls, state) ==
    [self EXCEPT !._current_state =
        IF bool(state) THEN state ELSE _current_state(self, cls)]

\* A variant of UpdateLoop that commits the first present result, changed or not
RECURSIVE UpdateLoopFirstPresent(_, _, _, _, _, _)
UpdateLoopFirstPresent(self, cls, funcs, k, input, called) ==
    IF k > Len(funcs) THEN [self |-> self, called |-> called]
    ELSE LET new_state == Call(funcs[k], _current_state(self, cls), input)
         IN  IF new_state # None
             THEN [self |-> [self EXCEPT !._current_state = new_state],
                   called |-> Append(called, funcs[k])]
             ELSE UpdateLoopFirstPresent(self, cls, funcs, k + 1, input,
                                         Append(called, funcs[k]))

\* A variant of UpdateLoop without the break: it goes on after a state change
RECURSIVE UpdateLoopNoBreak(_, _, _, _, _, _)
UpdateLoopNoBreak(self, cls, funcs, k, input, called) ==
    IF k > Len(funcs) THEN [self |-> self, called |-> called]
    ELSE LET new_state == Call(funcs[k], _current_state(self, cls), input)
         IN  UpdateLoopNoBreak(
                 IF new_state # None /\ new_state # _current_state(self, cls)
                 THEN [self EXCEPT !._current_state = new_state] ELSE self,
                 cls, funcs, k + 1, input, Append(called, funcs[k]))

\* The for loop of update from its k-th handler on; called lists the handlers
\* invoked so far
RECURSIVE UpdateLoop(_, _, _, _, _, _)
UpdateLoop(self, cls, funcs, k, input, called) ==
    IF k > Len(funcs) THEN [self |-> self, called |-> called]
    ELSE LET transition_func == funcs[k]
             new_state == Call(transition_func, _current_state(self, cls), input)
         IN  IF new_state # None /\ new_state # _current_state(self, cls)
             THEN [self |-> [self EXCEPT !._current_state = new_state],
                   called |-> Append(called, transition_func)]
             ELSE UpdateLoop(self, cls, funcs, k + 1, input,
                             Append(called, transition_func))

\* A variant of update that looks up the handlers of the start state
updateFromInitState(self, cls, input) ==
    LET done == UpdateLoop(self, cls, get(cls._state_transitions, cls._init_state),
                           1, input, <<>>)
    IN  [self |-> done.self,
         value |-> _current_state(done.self, cls),
         called |-> done.called]

\* A variant of update that returns the state it found on entry
updateReturnsEntryState(self, cls, input) ==
    LET done == UpdateLoop(self, cls,
                           get(cls._state_transitions, _current_state(self, cls)),
                           1, input, <<>>)
    IN  [self |-> done.self,
         value |-> _current_state(self, cls),
         called |-> done.called]

\* AbstractStateMachine.update
update(self, cls, input) ==
    LET done == UpdateLoop(self, cls,
                           get(cls._state_transitions, _current_state(self, cls)),
                           1, input, <<>>)
    IN  [self |-> done.self,
         value |-> _current_state(done.self, cls),
         called |-> done.called]

\* A variant of inner_wrapper that returns what the wrapped handler returned
inner_wrapperReturnsResult(func, self, cls) ==
    LET result == CallManual(func, current_state(self, cls))
    IN  [self |-> IF result # None THEN current_state_setter(self, cls, result)
                  ELSE self,
         value |-> result,
         called |-> <<func>>]

\* The inner_wrapper that manual() returns for func
inner_wrapper(func, self, cls) ==
    LET result == CallManual(func, current_state(self, cls))
        after == IF result # None THEN current_state_setter(self, cls, result)
                 ELSE self
    IN  [self |-> after,
         value |-> current_state(after, cls),
         called |-> <<func>>]

-----------------------------------------------------------------------------
(* The operations of the program as actions *)

Registries == {"r1", "r2"}
ClassNames == {"Base", "Derived", "DoorStateMachine", "InheritedDoorMachine"}
InstanceIds == {"i1", "i2"}

Called(op, self, arg, before, value, raised, called) ==
    [op |-> op, self |-> self, arg |-> arg, before |-> before,
     value |-> value, raised |-> raised, called |-> called]

NoCall == Called("none", None, None, None, None, None, <<>>)

RECURSIVE SumLen(_, _)
SumLen(table, states) ==
    IF states = {} THEN 0
    ELSE LET s == CHOOSE x \in states : TRUE
         IN  Len(table[s]) + SumLen(table, states \ {s})

\* The number of declarations a registry holds: state entries, manual handlers
\* and the entries its pending decorators would add
Entries(r) ==
    SumLen(registry[r]._transitions, AllStates)
    + SumLen(registry[r]._frozen_transitions, AllStates)
    + Len(registry[r]._manual_transitions)
    + Len(registry[r]._frozen_manual_transitions)
    + (IF \E d \in decorators : d.self = r
       THEN Len((CHOOSE d \in decorators : d.self = r).from_states) ELSE 0)

\* registry r: `r.new(from_states)`; the decorator returned is kept until it is
\* applied
New(r, from_states) ==
    LET res == new(registry[r], from_states)
        n == IF from_states.iterable THEN Len(from_states.value) ELSE 1
    IN  /\ ~(\E d \in decorators : d.self = r)
        /\ Entries(r) + n <= MaxReg
        /\ decorators' = IF res.raised = None
                         THEN decorators \cup
                              {[self |-> r,
                                from_states |-> res.value.from_states,
                                state_type |-> res.value.state_type,
                                ref_sig |-> res.value.ref_sig]}
                         ELSE decorators
        /\ last' = Called("new", r, from_states, registry[r], None, res.raised, <<>>)
        /\ UNCHANGED <<registry, wrappers, classes, instances, script>>

\* `@decorator def func`: the decorator d returned by new() is applied to func
Register(d, func) ==
    LET res == inner_register(registry[d.self], d, func)
    IN  /\ d \in decorators
        /\ decorators' = decorators \ {d}
        /\ registry' = IF res.raised = None
                       THEN [registry EXCEPT ![d.self] = res.value.self]
                       ELSE registry
        /\ last' = Called("inner_register", d.self, func, registry[d.self],
                          IF res.raised = None THEN res.value.func ELSE None,
                          res.raised, <<>>)
        /\ UNCHANGED <<wrappers, classes, instances, script>>

\* registry r: `@r.manual def func`
Manual(r, func) ==
    LET res == manual(registry[r], func)
    IN  /\ Entries(r) + 1 <= MaxReg
        /\ func \notin wrappers
        /\ registry' = IF res.raised = None
                       THEN [registry EXCEPT ![r] = res.value.self]
                       ELSE registry
        /\ wrappers' = IF res.raised = None THEN wrappers \cup {res.value.func}
                       ELSE wrappers
        /\ last' = Called("manual", r, func, registry[r],
                          IF res.raised = None THEN res.value.func ELSE None,
                          res.raised, <<>>)
        /\ UNCHANGED <<decorators, classes, instances, script>>

\* The end of a `with r:` block, normally (exc_value = None) or by an exception
Exit(r, exc_value) ==
    LET res == __exit__(registry[r], exc_value)
    IN  /\ registry' = [registry EXCEPT ![r] = res.value]
        /\ last' = Called("__exit__", r, exc_value, registry[r], None, res.raised, <<>>)
        /\ UNCHANGED <<decorators, wrappers, classes, instances, script>>

\* registry r: `r.get_transitions()`
GetTransitions(r) ==
    LET res == get_transitions(registry[r])
    IN  /\ last' = Called("get_transitions", r, None, registry[r],
                          IF res.raised = None THEN res.value[1] ELSE None,
                          res.raised, <<>>)
        /\ UNCHANGED <<registry, decorators, wrappers, classes, instances, script>>

\* A variant of DefineClass without the copy of line 131: the table the new
\* class fills is the dict object of its parent
DefineClassSharesTable(c, parent, init_state, inherit_transitions, body) ==
    LET res == __init_subclass__(c, parent, init_state, inherit_transitions,
                                 body, registry)
        shared == inherit_transitions /\ parent.name \in ClassNames
    IN  /\ ~classes[c].defined
        /\ parent.defined
        /\ classes' = IF res.raised # None THEN classes
                      ELSE [k \in ClassNames |->
                              IF k = c THEN res.value
                              ELSE IF shared /\ k = parent.name
                              THEN [classes[k] EXCEPT !._state_transitions =
                                                         res.value._state_transitions]
                              ELSE classes[k]]
        /\ last' = Called("__init_subclass__", c,
                          <<init_state, inherit_transitions>>, None, None,
                          res.raised, <<>>)
        /\ UNCHANGED <<registry, decorators, wrappers, instances, script>>

\* The end of the class statement `class c(parent, init_state=...,
\* inherit_transitions=...)` whose body bound the attributes of body
DefineClass(c, parent, init_state, inherit_transitions, body) ==
    LET res == __init_subclass__(c, parent, init_state, inherit_transitions,
                                 body, registry)
    IN  /\ ~classes[c].defined
        /\ parent.defined
        /\ classes' = IF res.raised = None THEN [classes EXCEPT ![c] = res.value]
                      ELSE classes
        /\ last' = Called("__init_subclass__", c,
                          <<init_state, inherit_transitions>>, None, None,
                          res.raised, <<>>)
        /\ UNCHANGED <<registry, decorators, wrappers, instances, script>>

\* `i = c()`
Construct(i, c) ==
    /\ classes[c].defined
    /\ ~instances[i].alive
    /\ instances' = [instances EXCEPT ![i] = NewInstance(c)]
    /\ last' = Called("__new__", i, c, None,
                      current_state(NewInstance(c), classes[c]), None, <<>>)
    /\ UNCHANGED <<registry, decorators, wrappers, classes, script>>

\* A variant of Update that stores the new state in the class attribute
UpdateWritesClass(i, input) ==
    LET self == instances[i]
        cls == classes[self.cls]
        res == update(self, cls, input)
    IN  /\ self.alive
        /\ classes' = [classes EXCEPT ![self.cls]._current_state = res.value]
        /\ instances' = instances
        /\ last' = Called("update", i, input, current_state(self, cls),
                          res.value, None, res.called)
        /\ UNCHANGED <<registry, decorators, wrappers>>

\* `i.update(input)`
Update(i, input) ==
    LET self == instances[i]
        cls == classes[self.cls]
        res == update(self, cls, input)
    IN  /\ self.alive
        /\ instances' = [instances EXCEPT ![i] = res.self]
        /\ last' = Called("update", i, input, current_state(self, cls),
                          res.value, None, res.called)
        /\ UNCHANGED <<registry, decorators, wrappers, classes>>

\* `i.func()` for a manual transition func
CallWrapper(i, func) ==
    LET self == instances[i]
        cls == classes[self.cls]
        res == inner_wrapper(func, self, cls)
    IN  /\ self.alive
        /\ func \in wrappers
        /\ instances' = [instances EXCEPT ![i] = res.self]
        /\ last' = Called("manual_call", i, func, current_state(self, cls),
                          res.value, None, res.called)
        /\ UNCHANGED <<registry, decorators, wrappers, classes, script>>

\* `i.current_state = state`
SetCurrentState(i, state) ==
    LET self == instances[i]
        cls == classes[self.cls]
    IN  /\ self.alive
        /\ instances' = [instances EXCEPT ![i] = current_state_setter(self, cls, state)]
        /\ last' = Called("set_current_state", i, state, current_state(self, cls),
                          None, None, <<>>)
        /\ UNCHANGED <<registry, decorators, wrappers, classes, script>>

-----------------------------------------------------------------------------
(* Spec: one machine type over Level, from the statements of its class body *)
(* (a registry bound to the attribute `transitions`) to the calls on an     *)
(* instance.  A statement of the class body runs before the class statement *)
(* ends, and an exception raised in the body abandons the class statement.  *)

Init ==
    /\ registry = [r \in Registries |-> Transitions("Base.update")]
    /\ decorators = {}
    /\ wrappers = {}
    /\ classes = [c \in ClassNames |-> Undefined(c)]
    /\ instances = [i \in InstanceIds |-> NoInstance]
    /\ last = NoCall
    /\ script = <<>>

LevelInputs == Signal \cup {None}
BodyFuncs == LevelFuncs \cup BadSigFuncs \cup {"Base.ret_int"}
RegistryFuncs == BodyFuncs \cup BadRetFuncs

InBody(c) == ~classes[c].defined /\ last.raised = None

\* In a class body a decorator is applied where new() returns it (`@r.new(...)`
\* above a def), so the next statement of the body finds none pending
AtStatement(c) == InBody(c) /\ decorators = {}

DeclareNew ==
    /\ AtStatement("Base")
    /\ \/ \E s \in Level : New("r1", Bare(s))
       \/ New("r1", Tuple(<<"IDLE", "RUN">>))
DeclareRegister ==
    /\ InBody("Base")
    /\ \E d \in decorators, f \in BodyFuncs : Register(d, f)
DeclareManual ==
    /\ AtStatement("Base")
    /\ \E f \in LevelManualFuncs : Manual("r1", f)
ExitWith ==
    /\ AtStatement("Base")
    /\ Exit("r1", None)
DefineBase ==
    /\ AtStatement("Base")
    /\ \E s \in Level \cup {None} :
          DefineClass("Base", AbstractStateMachine, s, TRUE,
                      [NoAttrs EXCEPT !["transitions"] = "r1"])
ConstructBase == Construct("i1", "Base")
CallUpdate == (\E e \in LevelInputs : Update("i1", e)) /\ UNCHANGED script
CallManualTransition == \E f \in LevelManualFuncs : CallWrapper("i1", f)
WriteCurrentState == \E s \in Level \cup {None} : SetCurrentState("i1", s)

Next ==
    \/ DeclareNew
    \/ DeclareRegister
    \/ DeclareManual
    \/ ExitWith
    \/ DefineBase
    \/ ConstructBase
    \/ CallUpdate
    \/ CallManualTransition
    \/ WriteCurrentState

Spec == Init /\ [][Next]_vars

-----------------------------------------------------------------------------
(* SpecRegistry: one registry used on its own (as a test does with a local   *)
(* `t = Transitions(update)`): every call is made in any order and a caller  *)
(* catches what a call raises.                                              *)

RegistryNew ==
    \/ \E s \in {"IDLE", "RUN"} : New("r1", Bare(s))
    \/ \E q \in {<<>>, <<"IDLE", "RUN">>, <<"RUN", "BAD_A">>} : New("r1", Tuple(q))
RegistryRegister == \E d \in decorators, f \in RegistryFuncs : Register(d, f)
RegistryManual == \E f \in LevelManualFuncs : Manual("r1", f)
RegistryExit == \E exc_value \in {None} \cup Exceptions : Exit("r1", exc_value)
RegistryGetTransitions == GetTransitions("r1")
\* `class Base(AbstractStateMachine, init_state=Level.IDLE): transitions = t`
RegistryDefine ==
    DefineClass("Base", AbstractStateMachine, "IDLE", TRUE,
                [NoAttrs EXCEPT !["transitions"] = "r1"])

NextRegistry ==
    \/ RegistryNew
    \/ RegistryRegister
    \/ RegistryManual
    \/ RegistryExit
    \/ RegistryGetTransitions
    \/ RegistryDefine

SpecRegistry == Init /\ [][NextRegistry]_vars

-----------------------------------------------------------------------------
(* SpecDoor: the DoorStateMachine of src/tests/tests.py.  Init is the state  *)
(* after its class statement; instance i1 is called freely, instance i2 is   *)
(* the door of the end-to-end scenario and receives DoorScript in order.    *)

\* `@self.new(from_states) def func` where nothing is raised
Decorate(self, from_states, func) ==
    inner_register(self, new(self, from_states).value, func).value.self

\* The registry after the `with Transition(update) as Transition:` block of
\* DoorStateMachine
DoorRegistry ==
    LET t0 == Transitions("DoorStateMachine.update")
        t1 == manual(t0, "Door.force_open").value.self
        t2 == Decorate(t1, Bare("LOCKED"), "Door.to_unlocked")
        t3 == Decorate(t2, Bare("UNLOCKED"), "Door.to_locked")
        t4 == Decorate(t3, Tuple(<<"LOCKED", "UNLOCKED">>), "Door.to_broken")
        t5 == Decorate(t4, Bare("BROKEN"), "Door.to_locked_from_broken")
    IN  __exit__(t5, None).value

DoorRegistries ==
    [r \in Registries |->
        IF r = "r1" THEN DoorRegistry ELSE Transitions("DoorStateMachine.update")]

\* class DoorStateMachine(AbstractStateMachine, init_state=DoorState.LOCKED)
DoorStateMachine ==
    __init_subclass__("DoorStateMachine", AbstractStateMachine, "LOCKED", TRUE,
                      [NoAttrs EXCEPT !["Transition"] = "r1"], DoorRegistries).value

DoorInputs == DoorEvent \cup {None}
DoorScript == <<"INSERT_KEY", "BREAK", "REPAIR", None>>

InitDoor ==
    /\ registry = DoorRegistries
    /\ decorators = {}
    /\ wrappers = {"Door.force_open"}
    /\ classes = [c \in ClassNames |->
                     IF c = "DoorStateMachine" THEN DoorStateMachine ELSE Undefined(c)]
    /\ instances = [i \in InstanceIds |-> NoInstance]
    /\ last = NoCall
    /\ script = <<>>

DoorConstruct ==
    /\ \E i \in InstanceIds : Construct(i, "DoorStateMachine")
    /\ UNCHANGED script
DoorUpdate ==
    /\ \E e \in DoorInputs : Update("i1", e)
    /\ UNCHANGED script
DoorScriptStep ==
    /\ Len(script) < Len(DoorScript)
    /\ Update("i2", DoorScript[Len(script) + 1])
    /\ script' = Append(script, last'.value)
DoorForceOpen == CallWrapper("i1", "Door.force_open")
DoorWrite == \E s \in DoorState \cup {None} : SetCurrentState("i1", s)

NextDoor ==
    \/ DoorConstruct
    \/ DoorUpdate
    \/ DoorScriptStep
    \/ DoorForceOpen
    \/ DoorWrite

SpecDoor == InitDoor /\ [][NextDoor]_vars

-----------------------------------------------------------------------------
(* SpecInherit: a type Base over Level and a type Derived(Base).  The body   *)
(* of Base fills registry r1, bound to the attribute `transitions`; the body *)
(* of Derived, which runs once Base exists, fills registry r2 and binds it   *)
(* to `transitions` (hiding the inherited attribute) or to `register`.       *)
(* Instance i1 is a Base, instance i2 a Derived.  Each body holds one with   *)
(* block, left once, and Derived's class statement ends after its block.    *)

BaseBodyNew ==
    /\ AtStatement("Base")
    /\ \E s \in {"IDLE", "RUN"} : New("r1", Bare(s))
BaseBodyRegister ==
    /\ InBody("Base")
    /\ \E d \in decorators : d.self = "r1" /\ Register(d, "Base.to_run")
BaseBodyExit ==
    /\ AtStatement("Base")
    /\ ~registry["r1"]._frozen
    /\ Exit("r1", None)
BaseEnd ==
    /\ AtStatement("Base")
    /\ DefineClass("Base", AbstractStateMachine, "IDLE", TRUE,
                   [NoAttrs EXCEPT !["transitions"] = "r1"])
DerivedBodyNew ==
    /\ classes["Base"].defined
    /\ AtStatement("Derived")
    /\ \E s \in {"IDLE", "RUN"} : New("r2", Bare(s))
DerivedBodyRegister ==
    /\ InBody("Derived")
    /\ \E d \in decorators :
          /\ d.self = "r2"
          /\ \/ Register(d, "Derived.finish")
             \/ d.from_states = <<"IDLE">> /\ Register(d, "Derived.to_run")
DerivedBodyExit ==
    /\ classes["Base"].defined
    /\ AtStatement("Derived")
    /\ ~registry["r2"]._frozen
    /\ Exit("r2", None)
DerivedEnd ==
    /\ AtStatement("Derived")
    /\ registry["r2"]._frozen
    /\ \E init_state \in {None, "RUN"}, inherit_transitions \in BOOLEAN,
          a \in {"transitions", "register"} :
          DefineClass("Derived", classes["Base"], init_state, inherit_transitions,
                      [NoAttrs EXCEPT ![a] = "r2"])
\* `class Derived(Base, ...): pass`: a body that declares no registry
DerivedEndPlain ==
    /\ AtStatement("Derived")
    /\ registry["r2"] = Transitions("Base.update")
    /\ \E init_state \in {None, "RUN"}, inherit_transitions \in BOOLEAN :
          DefineClass("Derived", classes["Base"], init_state, inherit_transitions,
                      NoAttrs)
InheritConstruct ==
    /\ \/ Construct("i1", "Base")
       \/ Construct("i2", "Derived")
    /\ UNCHANGED script
InheritUpdate ==
    /\ \E i \in InstanceIds, e \in LevelInputs : Update(i, e)
    /\ UNCHANGED script

NextInherit ==
    \/ BaseBodyNew
    \/ BaseBodyRegister
    \/ BaseBodyExit
    \/ BaseEnd
    \/ DerivedBodyNew
    \/ DerivedBodyRegister
    \/ DerivedBodyExit
    \/ DerivedEnd
    \/ DerivedEndPlain
    \/ InheritConstruct
    \/ InheritUpdate

SpecInherit == Init /\ [][NextInherit]_vars

-----------------------------------------------------------------------------
(* SpecTwo: one type Base over Level whose body holds two with blocks, one   *)
(* after the other: the first fills registry r1, the second registry r2.     *)
(* The class statement binds the two registries to two different attribute  *)
(* names, so every handler of r1 is registered before every handler of r2.  *)

FirstNew ==
    /\ AtStatement("Base")
    /\ ~registry["r1"]._frozen
    /\ \E s \in {"IDLE", "RUN"} : New("r1", Bare(s))
FirstRegister ==
    /\ InBody("Base")
    /\ \E d \in decorators, f \in {"Base.to_run", "Base.stay"} :
          d.self = "r1" /\ Register(d, f)
FirstExit ==
    /\ AtStatement("Base")
    /\ ~registry["r1"]._frozen
    /\ Exit("r1", None)
SecondNew ==
    /\ AtStatement("Base")
    /\ registry["r1"]._frozen
    /\ ~registry["r2"]._frozen
    /\ \E s \in {"IDLE", "RUN"} : New("r2", Bare(s))
SecondRegister ==
    /\ InBody("Base")
    /\ \E d \in decorators, f \in {"Base.to_done", "Base.to_idle"} :
          d.self = "r2" /\ Register(d, f)
SecondExit ==
    /\ AtStatement("Base")
    /\ registry["r1"]._frozen
    /\ ~registry["r2"]._frozen
    /\ Exit("r2", None)
TwoEnd ==
    /\ AtStatement("Base")
    /\ registry["r1"]._frozen
    /\ registry["r2"]._frozen
    /\ \E a1 \in DOMAIN NoAttrs, a2 \in DOMAIN NoAttrs :
          /\ a1 # a2
          /\ DefineClass("Base", AbstractStateMachine, "IDLE", TRUE,
                         [NoAttrs EXCEPT ![a1] = "r1", ![a2] = "r2"])
TwoConstruct == Construct("i1", "Base")
TwoUpdate == (\E e \in LevelInputs : Update("i1", e)) /\ UNCHANGED script

NextTwo ==
    \/ FirstNew
    \/ FirstRegister
    \/ FirstExit
    \/ SecondNew
    \/ SecondRegister
    \/ SecondExit
    \/ TwoEnd
    \/ TwoConstruct
    \/ TwoUpdate

SpecTwo == Init /\ [][NextTwo]_vars

-----------------------------------------------------------------------------
(* SpecFrame: a type Base over Level that exists from the start (a manual    *)
(* handler start_if_idle, to_run for IDLE, to_done for RUN, registry r1      *)
(* bound to `transitions`), its instances, and a type Derived(Base) whose    *)
(* class statement runs while instances of Base are in use.  Instance i1 is  *)
(* a Base, instance i2 a Base or a Derived.                                 *)

FrameRegistry ==
    LET t0 == Transitions("Base.update")
        t1 == manual(t0, "Base.start_if_idle").value.self
        t2 == Decorate(t1, Bare("IDLE"), "Base.to_run")
        t3 == Decorate(t2, Bare("RUN"), "Base.to_done")
    IN  __exit__(t3, None).value

FrameRegistries ==
    [r \in Registries |->
        IF r = "r1" THEN FrameRegistry ELSE Transitions("Base.update")]

\* class Base(AbstractStateMachine, init_state=Level.IDLE)
FrameBase ==
    __init_subclass__("Base", AbstractStateMachine, "IDLE", TRUE,
                      [NoAttrs EXCEPT !["transitions"] = "r1"], FrameRegistries).value

InitFrame ==
    /\ registry = FrameRegistries
    /\ decorators = {}
    /\ wrappers = {"Base.start_if_idle"}
    /\ classes = [c \in ClassNames |-> IF c = "Base" THEN FrameBase ELSE Undefined(c)]
    /\ instances = [i \in InstanceIds |-> NoInstance]
    /\ last = NoCall
    /\ script = <<>>

FrameBodyNew ==
    /\ ~classes["Derived"].defined
    /\ decorators = {}
    /\ ~registry["r2"]._frozen
    /\ \E s \in {"IDLE", "DONE"} : New("r2", Bare(s))
FrameBodyRegister ==
    /\ ~classes["Derived"].defined
    /\ \E d \in decorators, f \in DerivedFuncs : d.self = "r2" /\ Register(d, f)
FrameBodyExit ==
    /\ ~classes["Derived"].defined
    /\ decorators = {}
    /\ ~registry["r2"]._frozen
    /\ Exit("r2", None)
FrameEnd ==
    /\ decorators = {}
    /\ \E inherit_transitions \in BOOLEAN :
          \/ /\ registry["r2"]._frozen
             /\ \E a \in {"transitions", "register"} :
                   DefineClass("Derived", classes["Base"], None, inherit_transitions,
                               [NoAttrs EXCEPT ![a] = "r2"])
          \/ /\ registry["r2"] = Transitions("Base.update")
             /\ DefineClass("Derived", classes["Base"], None, inherit_transitions,
                            NoAttrs)
FrameConstruct ==
    /\ \/ Construct("i1", "Base")
       \/ \E c \in {"Base", "Derived"} : Construct("i2", c)
    /\ UNCHANGED script
FrameUpdate ==
    /\ \E i \in InstanceIds, e \in LevelInputs : Update(i, e)
    /\ UNCHANGED script
FrameCallManual == \E i \in InstanceIds : CallWrapper(i, "Base.start_if_idle")
FrameWrite == \E i \in InstanceIds : SetCurrentState(i, "DONE")

NextFrame ==
    \/ FrameBodyNew
    \/ FrameBodyRegister
    \/ FrameBodyExit
    \/ FrameEnd
    \/ FrameConstruct
    \/ FrameUpdate
    \/ FrameCallManual
    \/ FrameWrite

SpecFrame == InitFrame /\ [][NextFrame]_vars

-----------------------------------------------------------------------------
(* Properties of the run time, checked under Spec *)

\* The instance and class the last call was made on
LastSelf == instances[last.self]
LastCls == classes[LastSelf.cls]
LastFuncs == get(LastCls._state_transitions, last.before)

\* Handler number k of the state the last update() started in returns a present
\* state that differs from that state
Wins(k) ==
    /\ Call(LastFuncs[k], last.before, last.arg) # None
    /\ Call(LastFuncs[k], last.before, last.arg) # last.before

\* C1: one update() call ends with current_state equal to the result of the
\* first handler, in the order of the tuple of the state s it started in, whose
\* result is present and differs from s (a handler returning s itself neither
\* wins nor stops the scan); with no such handler current_state is still s.
C1_FirstChangingHandlerWins ==
    last.op = "update" =>
        IF \E k \in 1..Len(LastFuncs) : Wins(k)
        THEN \E k \in 1..Len(LastFuncs) :
                /\ Wins(k)
                /\ \A j \in 1..(k - 1) : ~Wins(j)
                /\ current_state(LastSelf, LastCls)
                       = Call(LastFuncs[k], last.before, last.arg)
        ELSE current_state(LastSelf, LastCls) = last.before

\* An update() in which a handler returned the current state itself and a later
\* handler of the same tuple changed the state
C1_Witness ==
    /\ last.op = "update"
    /\ \E k \in 2..Len(LastFuncs) :
          /\ Wins(k)
          /\ Call(LastFuncs[1], last.before, last.arg) = last.before
    /\ current_state(LastSelf, LastCls) # last.before

\* C2: the class statement stores the declared start state as the start state
\* of the type, and an instance just constructed (before any update(), manual
\* transition or direct write) has that start state as its current_state.
C2_StartsInStartState ==
    /\ (last.op = "__init_subclass__" /\ last.raised = None /\ last.arg[1] # None)
          => classes[last.self]._init_state = last.arg[1]
    /\ last.op = "__new__"
          => /\ current_state(LastSelf, LastCls) = LastCls._init_state
             /\ last.value = LastCls._init_state

\* An instance has just been constructed, of a type whose start state is not
\* the first member of its enum
C2_Witness ==
    /\ last.op = "__new__"
    /\ current_state(LastSelf, LastCls) = "RUN"

\* C3: when the state update() starts in has no handler in the dispatch table,
\* update() with any input invokes nothing, raises nothing, returns that state
\* and leaves it the current state; this holds for every call, so for any
\* number of repeated calls.
C3_NoHandlerIsNoOp ==
    (last.op = "update" /\ Len(LastFuncs) = 0) =>
        /\ last.raised = None
        /\ last.called = <<>>
        /\ last.value = last.before
        /\ current_state(LastSelf, LastCls) = last.before

\* update() was called in a state without handlers, on a machine whose start
\* state has handlers
C3_Witness ==
    /\ last.op = "update"
    /\ Len(LastFuncs) = 0
    /\ Len(get(LastCls._state_transitions, LastCls._init_state)) > 0
    /\ last.before # LastCls._init_state

\* C5: whenever the handler wrapped by a manual transition returns a present
\* state r, the call sets current_state to r, for every r and every current
\* state, r equal to the current state included.
C5_ManualCommitsEveryPresentResult ==
    (last.op = "manual_call" /\ CallManual(last.arg, last.before) # None) =>
        current_state(LastSelf, LastCls) = CallManual(last.arg, last.before)

\* C7: the value returned by update() and by a manual transition is the
\* instance's current_state at the end of the call.
C7_ReturnsCurrentState ==
    last.op \in {"update", "manual_call"} =>
        last.value = current_state(LastSelf, LastCls)

\* An update() that changed the state has returned
C7_Witness ==
    /\ last.op = "update"
    /\ last.value # last.before

-----------------------------------------------------------------------------
(* Properties of the registry, checked under SpecRegistry *)

\* C8: new(states) on a frozen registry raises TransitionFrozenError, returns
\* no decorator and leaves the registry, its frozen table included, as it was.
C8_NewAfterFreezeFails ==
    (last.op = "new" /\ last.before._frozen) =>
        /\ last.raised = "TransitionFrozenError"
        /\ registry[last.self]._frozen_transitions = last.before._frozen_transitions
        /\ registry[last.self] = last.before
        /\ ~(\E d \in decorators : d.self = last.self)

\* new() has been called on a frozen registry whose frozen table holds a handler
C8_Witness ==
    /\ last.op = "new"
    /\ last.before._frozen
    /\ last.before._frozen_transitions # EmptyTable

\* C9: freezing an already frozen registry is allowed and leaves the frozen
\* table that get_transitions() returns equal to the one of the first freeze.
C9_FreezeIsIdempotent ==
    (last.op = "__exit__" /\ last.raised = None /\ last.before._frozen) =>
        /\ get_transitions(registry[last.self]).raised = None
        /\ get_transitions(registry[last.self]).value[1]
               = get_transitions(last.before).value[1]

-----------------------------------------------------------------------------
(* Properties of the door machine, checked under SpecDoor *)

DoorExpected == <<"UNLOCKED", "BROKEN", "LOCKED", "LOCKED">>

\* C4: on a new door, update(INSERT_KEY), update(BREAK), update(REPAIR),
\* update(None) return UNLOCKED, BROKEN, LOCKED, LOCKED in turn; from any
\* reachable state an update whose event no handler of that state matches
\* leaves the state unchanged; BREAK from LOCKED or UNLOCKED yields BROKEN.
C4_DoorEndToEnd ==
    /\ \A k \in 1..Len(script) : script[k] = DoorExpected[k]
    /\ last.op = "update" =>
          /\ (\A k \in 1..Len(LastFuncs) :
                 Call(LastFuncs[k], last.before, last.arg) = None)
                => /\ last.value = last.before
                   /\ current_state(LastSelf, LastCls) = last.before
          /\ (last.arg = "BREAK" /\ last.before \in {"LOCKED", "UNLOCKED"})
                => /\ last.value = "BROKEN"
                   /\ current_state(LastSelf, LastCls) = "BROKEN"

\* The four calls of the scenario have been made
C4_Witness == Len(script) = Len(DoorScript)

\* C6: when the handler wrapped by a manual transition returns None the call
\* commits nothing and returns the unchanged current_state; force_open commits
\* UNLOCKED from LOCKED and leaves the state at UNLOCKED when called from
\* UNLOCKED.
C6_ManualAbsentCommitsNothing ==
    last.op = "manual_call" =>
        /\ CallManual(last.arg, last.before) = None
              => /\ current_state(LastSelf, LastCls) = last.before
                 /\ last.value = last.before
        /\ (last.arg = "Door.force_open" /\ last.before = "LOCKED")
              => /\ current_state(LastSelf, LastCls) = "UNLOCKED"
                 /\ last.value = "UNLOCKED"
        /\ (last.arg = "Door.force_open" /\ last.before = "UNLOCKED")
              => /\ current_state(LastSelf, LastCls) = "UNLOCKED"
                 /\ last.value = "UNLOCKED"

\* force_open has been called on a door that was UNLOCKED
C6_Witness ==
    /\ last.op = "manual_call"
    /\ last.arg = "Door.force_open"
    /\ last.before = "UNLOCKED"
    /\ instances[last.self]._current_state = "UNLOCKED"

-----------------------------------------------------------------------------
(* Properties of inheritance, checked under SpecInherit *)

\* The handlers of a tuple whose declared name is n
Named(funcs, n) == {k \in 1..Len(funcs) : __name__(funcs[k]) = n}

\* The handlers that the body of Derived registered for state s
DerivedOwn(s) == registry["r2"]._frozen_transitions[s]

\* For state s, handler f of Base's tuple is overridden: the body of Derived
\* registered a handler of the same declared name for s
Overridden(s, f) ==
    /\ \E k \in 1..Len(classes["Base"]._state_transitions[s]) :
          classes["Base"]._state_transitions[s][k] = f
    /\ \E k \in 1..Len(DerivedOwn(s)) :
          /\ __name__(DerivedOwn(s)[k]) = __name__(f)
          /\ DerivedOwn(s)[k] # f

\* C10: when a derived type that inherits transitions registers, for a state
\* its base handles, a handler with the declared name of an inherited handler
\* of that state, the derived tuple of that state holds exactly one handler of
\* that name, the derived one, and update() on the derived type never invokes
\* the base handler of that name.
C10_OverrideReplacesInherited ==
    (classes["Derived"].defined /\ classes["Derived"].inherit_transitions) =>
        /\ \A s \in Level :
              \A f \in Funcs :
                 Overridden(s, f) =>
                    LET funcs == classes["Derived"]._state_transitions[s]
                    IN  /\ Cardinality(Named(funcs, __name__(f))) = 1
                        /\ \A k \in Named(funcs, __name__(f)) : funcs[k] # f
        /\ (last.op = "update" /\ LastSelf.cls = "Derived") =>
              \A k \in 1..Len(last.called) : ~Overridden(last.before, last.called[k])

\* No handler that the body of Derived registered has the declared name of a
\* handler of Base's dispatch table
DerivedNamesAreNew ==
    \A s \in Level, t \in Level :
        \A j \in 1..Len(DerivedOwn(s)) :
            Named(classes["Base"]._state_transitions[t], __name__(DerivedOwn(s)[j])) = {}

\* C11: when a derived type that inherits transitions registers handlers whose
\* declared names differ from all inherited ones, the derived tuple of every
\* state is the inherited handlers in their inherited order followed by the
\* handlers the derived body registered, in registration order; a state the
\* derived body does not mention keeps exactly its inherited tuple.
C11_InheritedThenOwn ==
    (/\ classes["Derived"].defined
     /\ classes["Derived"].inherit_transitions
     /\ DerivedNamesAreNew) =>
        \A s \in AllStates :
            classes["Derived"]._state_transitions[s]
                = classes["Base"]._state_transitions[s] \o DerivedOwn(s)

-----------------------------------------------------------------------------
(* Properties of the registry's error handling, checked under SpecRegistry *)

\* C12: manual(handler) succeeds and returns a usable wrapper whatever the
\* freeze state of the registry, open or frozen.
C12_ManualRegardlessOfFreeze ==
    last.op = "manual" =>
        /\ last.raised = None
        /\ last.value = last.arg
        /\ last.arg \in wrappers

\* C13: get_transitions() on a registry that has not been frozen raises
\* TransitionNotFrozenError, whether the registry is empty or holds handlers;
\* the class statement of a type that carries a never-frozen registry raises
\* it too and defines no type.
C13_ReadBeforeFreezeFails ==
    /\ (last.op = "get_transitions" /\ ~last.before._frozen) =>
          /\ last.raised = "TransitionNotFrozenError"
          /\ last.value = None
    /\ (last.op = "__init_subclass__" /\ ~registry["r1"]._frozen) =>
          /\ last.raised = "TransitionNotFrozenError"
          /\ ~classes[last.self].defined

\* A class statement has failed on a registry that holds handlers and was
\* never frozen
C13_Witness ==
    /\ last.op = "__init_subclass__"
    /\ last.raised = "TransitionNotFrozenError"
    /\ registry["r1"]._transitions # EmptyTable
    /\ ~registry["r1"]._frozen

\* The states named by the argument of a new() call
StatesOf(from_states) ==
    IF from_states.iterable THEN from_states.value ELSE <<from_states.value>>

\* The states of q are not all of one enum class
Mixed(q) == \E j \in 1..Len(q), k \in 1..Len(q) : type(q[j]) # type(q[k])

OutsideReturn(ra, t) ==
    \/ ra.origin = "Literal" /\ \E r \in ra.args : type(r) # t
    \/ ra.origin = "class" /\ ra.args # {t}
    \/ ra.origin = "Union" /\ \E a \in ra.args : a \notin {t, "NoneType"}

\* C16: registering a handler whose declared return type is outside the state
\* type (Literal[42], int, Optional[int]) raises TransitionSignatureError and
\* adds nothing; so no list of the registry holds such a handler.  Every
\* decorator of SpecRegistry is for states of Level.
C16_ReturnTypeMismatchRejected ==
    /\ (last.op = "inner_register"
           /\ OutsideReturn(ReturnAnnotation(last.arg), "Level")) =>
          /\ last.raised = "TransitionSignatureError"
          /\ registry[last.self] = last.before
    /\ \A r \in Registries, s \in AllStates :
          /\ \A k \in 1..Len(registry[r]._transitions[s]) :
                ~OutsideReturn(ReturnAnnotation(registry[r]._transitions[s][k]), type(s))
          /\ \A k \in 1..Len(registry[r]._frozen_transitions[s]) :
                ~OutsideReturn(ReturnAnnotation(registry[r]._frozen_transitions[s][k]),
                               type(s))

-----------------------------------------------------------------------------
(* Properties of the class statement and of registration, checked under Spec *)

\* Every handler of the tuple funcs has the parameters of _spec
SameSignature(funcs, _spec) ==
    \A k \in 1..Len(funcs) : Parameters(funcs[k]) = Parameters(_spec)

\* C15: registering a handler whose parameters differ from those of the
\* reference update (a missing or extra parameter, another declared type)
\* raises TransitionSignatureError, a StateMachineCompilationError, and adds
\* the handler to no state; so every handler of a registry's lists, of a
\* frozen table and of a dispatch table has the parameters of the reference.
C15_SignatureMismatchRejected ==
    /\ (last.op = "inner_register"
           /\ Parameters(last.arg) # Parameters(last.before._spec)) =>
          /\ last.raised = "TransitionSignatureError"
          /\ issubclass(last.raised, "StateMachineCompilationError")
          /\ registry[last.self] = last.before
    /\ \A r \in Registries, s \in AllStates :
          /\ SameSignature(registry[r]._transitions[s], registry[r]._spec)
          /\ SameSignature(registry[r]._frozen_transitions[s], registry[r]._spec)
    /\ \A c \in ClassNames, s \in AllStates :
          SameSignature(classes[c]._state_transitions[s], "Base.update")

\* A handler with an extra parameter has been refused by a registry that
\* already holds a handler
C15_Witness ==
    /\ last.op = "inner_register"
    /\ last.arg = "Base.extra_arg"
    /\ last.raised = "TransitionSignatureError"
    /\ last.before._transitions # EmptyTable

\* C17: a class statement with no init_state, on a base that has no start state
\* either, raises StateMachineCompilationError and defines no type; so every
\* type that exists has a start state and every instance is of such a type.
C17_MissingStartStateFails ==
    /\ (last.op = "__init_subclass__" /\ last.arg[1] = None) =>
          /\ last.raised = "StateMachineCompilationError"
          /\ ~classes[last.self].defined
    /\ \A c \in ClassNames : classes[c].defined => classes[c]._init_state \in Level
    /\ \A i \in InstanceIds :
          instances[i].alive =>
             /\ classes[instances[i].cls].defined
             /\ current_state(instances[i], classes[instances[i].cls]) # None

\* A class statement without init_state has failed after a complete body
C17_Witness ==
    /\ last.op = "__init_subclass__"
    /\ last.arg[1] = None
    /\ last.raised = "StateMachineCompilationError"
    /\ registry["r1"]._frozen
    /\ registry["r1"]._frozen_transitions # EmptyTable

\* Some state has two or more handlers in table
HasDuplicate(table) == \E s \in AllStates : Len(table[s]) >= 2

Registrable(func, _spec) ==
    /\ Parameters(func) = Parameters(_spec)
    /\ ~(ReturnAnnotation(func).origin = "Literal"
          /\ \E r \in ReturnAnnotation(func).args : type(r) # "Level")

C20_DirectWriteSetsState ==
    (last.op = "set_current_state" /\ last.arg \in Level) =>
        /\ current_state(LastSelf, LastCls) = last.arg
        /\ last.called = <<>>

-----------------------------------------------------------------------------
(* Properties of the start state under inheritance, checked under SpecInherit *)

\* C18: a derived type declared without init_state has its parent's start
\* state and one declared with init_state has that state; a new instance of
\* either type starts in the start state of its type; the start state of the
\* parent, and of parent instances constructed afterwards, stays IDLE.
C18_InheritedOrOwnStartState ==
    /\ classes["Base"].defined =>
          /\ classes["Base"]._init_state = "IDLE"
          /\ classes["Base"]._current_state = "IDLE"
    /\ classes["Derived"].defined =>
          /\ classes["Derived"]._init_state =
                 IF classes["Derived"].init_state = None
                 THEN classes["Base"]._init_state
                 ELSE classes["Derived"].init_state
          /\ classes["Derived"]._current_state = classes["Derived"]._init_state
    /\ last.op = "__new__" =>
          /\ last.value = LastCls._init_state
          /\ current_state(LastSelf, LastCls) = LastCls._init_state

\* A Base instance has been constructed after a Derived with its own start
\* state was declared and instantiated
C18_Witness ==
    /\ last.op = "__new__"
    /\ last.self = "i1"
    /\ last.value = "IDLE"
    /\ instances["i2"].alive
    /\ classes["Derived"].init_state = "RUN"
    /\ current_state(instances["i2"], classes["Derived"]) = "RUN"

-----------------------------------------------------------------------------
(* Properties of one update() call and of the table it reads, checked under  *)
(* Spec                                                                     *)

\* C21: the handlers one update() call invokes from state s are the handlers
\* of the tuple of s, in tuple order and once each, up to and including the
\* first whose result is present and differs from s (all of them when there is
\* none); so the call invokes at most Len(tuple) handlers, none after the
\* winner and none of the state it enters, and changes the state at most once.
C21_InvokesPrefixUpToWinner ==
    last.op = "update" =>
        /\ Len(last.called) <= Len(LastFuncs)
        /\ \A k \in 1..Len(last.called) : last.called[k] = LastFuncs[k]
        /\ IF \E k \in 1..Len(LastFuncs) : Wins(k)
           THEN /\ Len(last.called) >= 1
                /\ Wins(Len(last.called))
                /\ \A j \in 1..(Len(last.called) - 1) : ~Wins(j)
                /\ current_state(LastSelf, LastCls)
                       = Call(last.called[Len(last.called)], last.before, last.arg)
           ELSE /\ last.called = LastFuncs
                /\ current_state(LastSelf, LastCls) = last.before

\* An update() whose first handler changed the state although the tuple holds
\* a second handler that would have changed it too
C21_Witness ==
    /\ last.op = "update"
    /\ Len(LastFuncs) = 2
    /\ Len(last.called) = 1
    /\ Wins(2)

\* C29: after update() the current state is a member of the state type of the
\* machine, whose handlers were all accepted by inner_register.
C29_CurrentStateInDomain ==
    last.op = "update" =>
        /\ type(last.value) = LastCls._state_type
        /\ type(current_state(LastSelf, LastCls)) = LastCls._state_type

\* No handler of the tuple funcs is a manual handler
NoManual(funcs) == \A k \in 1..Len(funcs) : funcs[k] \notin ManualFuncs

\* C30: no list of a registry, no tuple of its frozen table and no tuple of a
\* dispatch table holds a manual handler, and update() invokes none.
C30_ManualNeverDispatched ==
    /\ \A r \in Registries, s \in AllStates :
          /\ NoManual(registry[r]._transitions[s])
          /\ NoManual(registry[r]._frozen_transitions[s])
    /\ \A c \in ClassNames, s \in AllStates :
          NoManual(classes[c]._state_transitions[s])
    /\ last.op = "update" => NoManual(last.called)

\* update() has invoked a handler on a machine whose registry declared a
\* manual handler beside the state-bound one
C30_Witness ==
    /\ last.op = "update"
    /\ last.called # <<>>
    /\ registry["r1"]._frozen_manual_transitions # <<>>
    /\ registry["r1"]._frozen_transitions # EmptyTable

-----------------------------------------------------------------------------
(* Properties of registration and freeze in any order, checked under         *)
(* SpecRegistry                                                             *)

\* C22: whatever the order of new(), the application of its decorator and the
\* freeze, a new() or a decorator application made on a frozen registry
\* raises and adds no handler, neither to the per-state lists nor to the
\* frozen table.
C22_NothingRegisteredAfterFreeze ==
    (last.op \in {"new", "inner_register"} /\ last.before._frozen) =>
        /\ last.raised # None
        /\ registry[last.self]._transitions = last.before._transitions
        /\ registry[last.self]._frozen_transitions = last.before._frozen_transitions

\* A successful decorator application appends func once to the list of every
\* state the decorator was made for and changes no other list
RegistersUnderItsStates ==
    (last'.op = "inner_register" /\ last'.raised = None) =>
        \E d \in decorators \ decorators' :
            \A s \in AllStates :
                registry'[d.self]._transitions[s] =
                    IF \E k \in 1..Len(d.from_states) : d.from_states[k] = s
                    THEN Append(registry[d.self]._transitions[s], last'.arg)
                    ELSE registry[d.self]._transitions[s]

\* The freeze of an open registry makes the frozen table equal to the lists
FreezeTakesTheLists ==
    (last'.op = "__exit__" /\ last'.raised = None /\ ~registry["r1"]._frozen) =>
        registry'["r1"]._frozen_transitions = registry["r1"]._transitions

\* A frozen registry keeps its frozen table
FrozenTableStays ==
    registry["r1"]._frozen =>
        registry'["r1"]._frozen_transitions = registry["r1"]._frozen_transitions

\* C23: once a registry is frozen, the frozen tuple of every state lists
\* exactly the handlers registered for that state while the registry was open,
\* in the order of the registration calls; a handler registered under several
\* states is once in the tuple of each of them and in no other.
C23_FrozenTableIsRegistrations ==
    [][RegistersUnderItsStates /\ FreezeTakesTheLists /\ FrozenTableStays]_vars

-----------------------------------------------------------------------------
(* Properties of the table of a derived type, checked under SpecInherit *)

\* Handler f is one of the handlers of the tuple funcs
In(f, funcs) == \E k \in 1..Len(funcs) : funcs[k] = f

\* C25: a derived type declared with inherit_transitions=False has a table
\* that holds exactly the handlers of the registries of its own body, and its
\* update() invokes no handler that only the registry of its base holds.
C25_NoInheritanceStartsEmpty ==
    (classes["Derived"].defined /\ ~classes["Derived"].inherit_transitions) =>
        /\ \A s \in AllStates :
              classes["Derived"]._state_transitions[s] = DerivedOwn(s)
        /\ (last.op = "update" /\ LastSelf.cls = "Derived") =>
              \A k \in 1..Len(last.called) :
                  In(last.called[k], DerivedOwn(last.before))

\* The body of Derived registers nothing for a state that Base handles
DerivedOnlyNewStates ==
    \A s \in AllStates :
        Len(classes["Base"]._state_transitions[s]) > 0 => Len(DerivedOwn(s)) = 0

\* C26: a derived type that inherits transitions and registers nothing for the
\* states its parent handles (no registry at all, or registries for other
\* states only) has the parent's tuple for each of those states, without a
\* duplicate, so one update() of it invokes no more handlers than the parent's
\* tuple holds.
C26_InheritedSequenceKept ==
    (/\ classes["Derived"].defined
     /\ classes["Derived"].inherit_transitions
     /\ DerivedOnlyNewStates) =>
        /\ \A s \in AllStates :
              Len(classes["Base"]._state_transitions[s]) > 0 =>
                  classes["Derived"]._state_transitions[s]
                      = classes["Base"]._state_transitions[s]
        /\ (/\ last.op = "update"
            /\ LastSelf.cls = "Derived"
            /\ Len(get(classes["Base"]._state_transitions, last.before)) > 0) =>
              Len(last.called) <= Len(classes["Base"]._state_transitions[last.before])

-----------------------------------------------------------------------------
(* Properties of a body with several registries, checked under SpecTwo *)

\* C24: when the body of a type declares several registries, the tuple of a
\* state lists the handlers in the order in which they were registered in the
\* body (those of the first with block, then those of the second), whatever
\* the names of the attributes the registries are bound to.
C24_RegistrationOrderAcrossRegistries ==
    classes["Base"].defined =>
        \A s \in AllStates :
            classes["Base"]._state_transitions[s]
                = registry["r1"]._frozen_transitions[s]
                  \o registry["r2"]._frozen_transitions[s]

-----------------------------------------------------------------------------
(* Frame properties, checked under SpecFrame *)

\* The class of instance i
ClassOf(i) == classes[instances[i].cls]

\* C27: the dispatch table of a type that exists is the same after every
\* step: update(), a manual transition or a direct write on any instance, and
\* the class statement of a derived type (with or without a registry of its
\* own, overriding or appending), leave it as it was.
C27_DispatchTableNeverChanges ==
    [][\A c \in ClassNames :
          classes[c].defined =>
             /\ classes'[c].defined
             /\ classes'[c]._state_transitions = classes[c]._state_transitions]_vars

\* A Base instance has changed state by update() after a Derived type with a
\* table of its own was declared
C27_Witness ==
    /\ classes["Derived"].defined
    /\ classes["Derived"].inherit_transitions
    /\ classes["Derived"]._state_transitions # classes["Base"]._state_transitions
    /\ last.op = "update"
    /\ LastSelf.cls = "Base"
    /\ last.value # last.before

\* C28: a call on one instance (update(), a manual transition, a direct
\* write) leaves the current_state of every other instance, of the same type
\* or of the derived type, as it was, and an instance constructed later starts
\* in the start state of its type.
C28_CurrentStateIsPerInstance ==
    /\ [](last.op = "__new__" => last.value = LastCls._init_state)
    /\ [][\A i \in InstanceIds :
             (instances[i].alive /\ last'.self # i) =>
                 /\ instances'[i] = instances[i]
                 /\ current_state(instances'[i], classes'[instances[i].cls])
                        = current_state(instances[i], ClassOf(i))]_vars

\* The second Base instance has been constructed after the first one left
\* the start state
C28_Witness ==
    /\ last.op = "__new__"
    /\ last.self = "i2"
    /\ last.arg = "Base"
    /\ last.value = "IDLE"
    /\ instances["i1"].alive
    /\ current_state(instances["i1"], classes["Base"]) # "IDLE"

-----------------------------------------------------------------------------
(* Leaving the declaration scope by an exception, checked under SpecRegistry *)

\* The last call was the end of a with block left by an exception of the set
\* excs, and: __exit__ did not suppress the exception (it raised that very
\* exception, or returned None and the with statement re-raises it), the
\* registry is as it was before, and when it was open it still is (new() is
\* accepted, get_transitions() raises TransitionNotFrozenError)
ExceptionExitLeavesOpen(excs) ==
    (last.op = "__exit__" /\ last.arg \in excs) =>
        /\ last.raised \in {None, last.arg}
        /\ last.value = None
        /\ registry[last.self] = last.before
        /\ ~last.before._frozen =>
              /\ ~registry[last.self]._frozen
              /\ new(registry[last.self], Bare("IDLE")).raised = None
              /\ get_transitions(registry[last.self]).raised
                    = "TransitionNotFrozenError"

\* A step that freezes an open registry is a normal exit of the with block
OnlyNormalExitFreezes ==
    \A r \in DOMAIN registry :
        (~registry[r]._frozen /\ registry'[r]._frozen) =>
            (last'.op = "__exit__" /\ last'.self = r /\ last'.arg = None)

\* C31: when the with block of a registry is left by an exception, the
\* exception propagates and the registry is not frozen by it: an open registry
\* stays open, new() is accepted and get_transitions() raises
\* TransitionNotFrozenError; only a normal exit freezes a registry.
C31_ExceptionExitDoesNotFreeze ==
    /\ [](ExceptionExitLeavesOpen(Exceptions))
    /\ [][OnlyNormalExitFreezes]_vars

\* The part of C31 that holds: the same for the exceptions whose truth value is
\* true
C31_TrueExceptionExitDoesNotFreeze ==
    /\ [](ExceptionExitLeavesOpen({e \in Exceptions : bool(e)}))
    /\ [][OnlyNormalExitFreezes
            \/ (last'.op = "__exit__" /\ ~bool(last'.arg))]_vars

\* An open registry with a handler registered has been left by an exception
\* whose truth value is true
C31_Witness ==
    /\ last.op = "__exit__"
    /\ last.arg = "ValueError"
    /\ ~registry["r1"]._frozen
    /\ \E s \in AllStates : Len(registry["r1"]._transitions[s]) > 0

====
